---- MODULE Spec2Model ----
(***************************************************************************)
(* Job lifecycle and change pipeline of the Jules-style agent API          *)
(* (src/main.py): start_task, get_status, get_result and run_agent over    *)
(* the full-snapshot task store.                                           *)
(*                                                                         *)
(* Handlers run on worker threads, so the store accesses of different      *)
(* requests and background runs interleave at load_tasks / save_tasks.     *)
(* Each load and each save is one step; the try block of run_agent touches *)
(* only the job's own workspace and the remote, and is one step.           *)
(***************************************************************************)
EXTENDS Integers, Sequences, FiniteSets, TLC

VARIABLES
    store,          \* the persisted mapping task_id -> {status, result}
    nextId,         \* uuid.uuid4(): the next identifier never handed out before
    pc,             \* per job: position of its start_task / run_agent
    tasks,          \* per job: the local variable `tasks` of the running handler
    req,            \* per job: the TaskRequest object shared with run_agent
    submitted,      \* per job: the request exactly as the caller posted it
    calls,          \* per job: external calls made by its run, in order
    faults,         \* per job: external calls that fail for its run
    nfaults,        \* number of failing external calls injected so far
    github_token,   \* os.getenv("GITHUB_TOKEN")
    overlapped,     \* pairs <<a, b>>: start_task(b) returned while run_agent(a) was executing
    wrote,          \* per job: the status its run_agent saved, None before that
    STORAGE_TYPE,   \* os.getenv("STORAGE_TYPE", "file")
    redis_state,    \* the redis service as TaskStorage.__init__ finds it
    storage_type,   \* task_storage.storage_type
    redis_client,   \* task_storage.redis_client
    fs_dir,         \* file system: the inode behind TASKS_FILE and behind its .tmp, 0 if absent
    fs_data,        \* file system: the text of each inode
    redis_db,       \* the value of the key "jules_tasks", empty if not set
    memory_tasks,   \* _memory_tasks
    spc,            \* per thread: position of its load_tasks / save_tasks call
    arg,            \* per thread: the mapping passed to its save_tasks call
    fd,             \* per thread: the inode of its open temporary file, 0 if none
    got,            \* per thread: what its load_tasks call returned
    touched,        \* per thread: a step of its call changed what is persisted
    passed,         \* the mappings passed to save_tasks so far
    solo,           \* the thread whose save has run with no other save beside it, 0 if none
    settled,        \* the mapping of the last such save that succeeded, until the next save
    polled          \* the latest query: its handler, its id and what it answered

\* the state of the jobs
jvars == <<store, nextId, pc, tasks, req, submitted, calls, faults,
           github_token, overlapped, wrote>>

\* the state of the storage backends and of the calls into them
svars == <<STORAGE_TYPE, redis_state, storage_type, redis_client, fs_dir, fs_data,
           redis_db, memory_tasks, spc, arg, fd, got, touched, passed, solo, settled>>

\* the state of the queries
qvars == <<polled>>

vars == <<jvars, nfaults, svars, qvars>>

------------------------------------------------------------------------------
(* Bounds *)

MaxJobs == 2            \* number of start_task requests
MaxPipelineJobs == 1    \* the same, where every request and every failure is tried
MaxFaults == 1          \* failing external calls over one behaviour

Jobs == 1..MaxJobs
PipelineJobs == 1..MaxPipelineJobs
AllIds == 1..(MaxJobs + 1)      \* identifiers a caller may poll

------------------------------------------------------------------------------
(* Values *)

None == "<None>"                \* Python's None, distinct from every str

Truthy(s) == s # None /\ s # ""

EmptyMap == <<>>

Put(m, k, v) == [x \in (DOMAIN m) \cup {k} |-> IF x = k THEN v ELSE m[x]]

TerminalStatus == {"completed", "failed"}

------------------------------------------------------------------------------
(* TaskStorage: one mapping, read and written as a whole *)

load_tasks(s) == s

save_tasks(t) == t

------------------------------------------------------------------------------
(* TaskRequest *)

ECHO == "echo 'Test command not available, skipping tests'"

TestCommands == {None, " ", "pytest -q", "nosuch"}

TaskRequest(cmd) ==
    [prompt |-> "fix typo",
     github_repo_url |-> "https://github.com/o/r",
     github_branch |-> "main",
     test_command |-> cmd]

Requests == {TaskRequest(c) : c \in TestCommands}

NoRequest == TaskRequest(None)

\* str.split() on the command strings that occur
Split(s) ==
    CASE s = "pytest -q" -> <<"pytest", "-q">>
      [] s = "nosuch"    -> <<"nosuch">>
      [] s = " "         -> <<>>
      [] s = ""          -> <<>>
      [] s = ECHO        -> <<"echo", "'Test", "command", "not", "available,",
                              "skipping", "tests'">>

\* executables on the PATH of the service
Installed == {"git", "echo", "pytest"}

\* shutil.which(binary) is not None
Which(binary) == binary \in Installed

------------------------------------------------------------------------------
(* Exceptions *)

Exc(cls, msg) == [cls |-> cls, msg |-> msg]

NoExc == Exc(None, None)

\* classes caught by `except Exception`
ExceptionClasses ==
    {"EnvironmentError", "IndexError", "RuntimeError", "OSError",
     "FileNotFoundError", "CalledProcessError", "ConnectionError", "HTTPError",
     "JSONDecodeError"}

\* mutant of IsException: `except subprocess.CalledProcessError` in place of
\* `except Exception`
IsException_OnlySubprocess(cls) == cls = "CalledProcessError"

IsException(cls) == cls \in ExceptionClasses

\* the calls of the try block before and after the optional gate, in code order
PreGate ==
    <<"makedirs", "git_clone", "git_checkout", "git_config_name",
      "git_config_email", "git_checkout_b", "open_readme">>

PostGate ==
    <<"git_add", "git_commit", "git_push", "requests_post", "raise_for_status",
      "response_json">>

Range(f) == {f[i] : i \in DOMAIN f}

ExternalCalls == Range(PreGate) \cup {"gate"} \cup Range(PostGate)

\* the exception a failing call raises
Raises(call) ==
    CASE call \in {"makedirs", "open_readme"} -> Exc("OSError", "[Errno 13] Permission denied: " \o call)
      [] call = "requests_post"     -> Exc("ConnectionError", "Connection refused")
      [] call = "raise_for_status"  -> Exc("HTTPError", "422 Client Error: Unprocessable Entity")
      [] call = "response_json"     -> Exc("JSONDecodeError", "Expecting value: line 1 column 1 (char 0)")
      [] OTHER -> Exc("CalledProcessError", "Command " \o call \o " returned non-zero exit status 1.")

\* response.json().get('html_url') of the pull request opened for the job's branch
HtmlUrl(task_id) == "https://github.com/o/r/pull/" \o ToString(task_id)

------------------------------------------------------------------------------
(* run_agent: the try block *)

\* what the try block leaves behind: the request object, the calls made, the
\* exception that ended it (NoExc when it ran to the end)
Outcome(r, made, exc) == [req |-> r, calls |-> made, exc |-> exc]

\* mutant of RunCalls: check=True is left out, a failing call does not raise
RunCalls_NoCheck(script, failing) == [calls |-> script, exc |-> NoExc]

\* subprocess.run(..., check=True) and the other calls that raise on failure:
\* run the calls of `script` in order until one of them raises
RECURSIVE RunCalls(_, _)
RunCalls(script, failing) ==
    IF script = <<>> THEN [calls |-> <<>>, exc |-> NoExc]
    ELSE IF Head(script) \in failing
         THEN [calls |-> <<Head(script)>>, exc |-> Raises(Head(script))]
         ELSE LET rest == RunCalls(Tail(script), failing)
              IN  [calls |-> <<Head(script)>> \o rest.calls, exc |-> rest.exc]

\* mutant of ResolveGate: the missing executable is not replaced
ResolveGate_NoFallback(r) == r

\* the request after the check of the test command's executable
ResolveGate(r) ==
    IF Truthy(r.test_command) /\ ~Which(Split(r.test_command)[1])
    THEN [r EXCEPT !.test_command = ECHO]
    ELSE r

\* test_result.returncode of subprocess.run(argv): echo succeeds, any other
\* command exits non-zero when the environment makes the gate fail
ReturnCode(argv, failing) ==
    IF argv[1] # "echo" /\ "gate" \in failing THEN 1 ELSE 0

\* mutant of GateExc: the exit status of the test command is not looked at
GateExc_NoCheck(argv, failing) ==
    IF ~Which(argv[1])
    THEN Exc("FileNotFoundError", "[Errno 2] No such file or directory: " \o argv[1])
    ELSE NoExc

\* subprocess.run(req.test_command.split(), cwd=repo_dir) and the check of its exit
GateExc(argv, failing) ==
    IF ~Which(argv[1])
    THEN Exc("FileNotFoundError", "[Errno 2] No such file or directory: " \o argv[1])
    ELSE IF ReturnCode(argv, failing) # 0
         THEN Exc("RuntimeError", "Tests failed. Aborting push.")
         ELSE NoExc

\* mutant of TokenMissing: the token is not checked before the workspace is made
TokenMissing_Unchecked(token) == FALSE

\* github_token = os.getenv("GITHUB_TOKEN"); if not github_token
TokenMissing(token) == ~Truthy(token)

TryBlock(task_id, r, token, failing) ==
    IF TokenMissing(token)
    THEN Outcome(r, <<>>, Exc("EnvironmentError", "GITHUB_TOKEN is not set"))
    ELSE IF Truthy(r.test_command) /\ Split(r.test_command) = <<>>
    THEN Outcome(r, <<>>, Exc("IndexError", "list index out of range"))
    ELSE
      LET r1   == ResolveGate(r)
          pre  == RunCalls(PreGate, failing)
          gate == Truthy(r1.test_command)
          upToGate == IF gate THEN pre.calls \o <<"gate">> ELSE pre.calls
          gexc == IF gate THEN GateExc(Split(r1.test_command), failing) ELSE NoExc
          post == RunCalls(PostGate, failing)
      IN  IF pre.exc # NoExc THEN Outcome(r1, pre.calls, pre.exc)
          ELSE IF gexc # NoExc THEN Outcome(r1, upToGate, gexc)
          ELSE Outcome(r1, upToGate \o post.calls, post.exc)

\* tasks[task_id] = {"status": "completed", "result": f"Pull request created: ..."}
Completed(task_id) ==
    [status |-> "completed", result |-> "Pull request created: " \o HtmlUrl(task_id)]

\* mutant of Failed: the description of the error is not recorded
Failed_NoResult(exc) == [status |-> "failed", result |-> None]

\* tasks[task_id] = {"status": "failed", "result": str(e)}
Failed(exc) == [status |-> "failed", result |-> exc.msg]

\* tasks[task_id] = {"status": "running", "result": None}
Running == [status |-> "running", result |-> None]

------------------------------------------------------------------------------
(* Queries *)

get_status(s, task_id) ==
    IF task_id \in DOMAIN load_tasks(s)
    THEN load_tasks(s)[task_id]
    ELSE [status |-> "unknown"]

get_result(s, task_id) ==
    IF task_id \notin DOMAIN load_tasks(s)
    THEN [status |-> "unknown", result |-> None]
    ELSE [status |-> load_tasks(s)[task_id].status,
          result |-> load_tasks(s)[task_id].result]

\* no query yet
NoPoll == [handler |-> None, task_id |-> 0, answer |-> [status |-> None],
           saves |-> 0, repeat |-> FALSE]

\* the number of save_tasks calls of start_task and run_agent so far
SavesDone ==
    Cardinality({j \in Jobs : pc[j] \notin {"idle", "st_loaded"}})
        + Cardinality({j \in Jobs : pc[j] = "done"})

\* the query h(id) answers a; it repeats the latest query where that one was
\* the same query with no save since
Poll(h, id, a) ==
    [handler |-> h, task_id |-> id, answer |-> a, saves |-> SavesDone,
     repeat |-> /\ polled.handler = h
                /\ polled.task_id = id
                /\ polled.saves = SavesDone]

\* tasks = load_tasks(); return tasks.get(task_id, {"status": "unknown"})
GetStatus(id) ==
    /\ polled' = Poll("get_status", id, get_status(store, id))
    /\ UNCHANGED <<jvars, nfaults, svars>>

\* mutant of GetResult: an id that is not known is filed as unknown
GetResult_Files(id) ==
    /\ polled' = Poll("get_result", id, get_result(store, id))
    /\ store' = IF id \in DOMAIN store
                THEN store
                ELSE save_tasks(Put(store, id, [status |-> "unknown", result |-> None]))
    /\ UNCHANGED <<nextId, pc, tasks, req, submitted, calls, faults, github_token,
                   overlapped, wrote, nfaults, svars>>

\* tasks = load_tasks(); task = tasks.get(task_id); the unknown answer if not
\* task, else the status and the result of task
GetResult(id) ==
    /\ polled' = Poll("get_result", id, get_result(store, id))
    /\ UNCHANGED <<jvars, nfaults, svars>>

QueriesStart == polled = NoPoll

------------------------------------------------------------------------------
(* Environment *)

\* the sets of at most k calls among `among`
RECURSIVE CallSets(_, _)
CallSets(among, k) ==
    IF k = 0 THEN {{}}
    ELSE LET S == CallSets(among, k - 1) IN S \cup {s \cup {c} : s \in S, c \in among}

\* the sets of external calls that may fail for one run
FaultSets == CallSets(ExternalCalls, MaxFaults)

\* the requests and failures tried where many jobs run concurrently: with and
\* without a gate, the gate passing or exiting non-zero
ConcurrentRequests == {TaskRequest(None), TaskRequest("pytest -q")}

ConcurrentFaultSets == CallSets({"gate"}, MaxFaults)

Tokens == {None, "ghp_token"}

\* run_agent(a) has loaded its snapshot and not yet saved
Executing(a) == pc[a] \in {"ra_loaded", "ra_final"}

------------------------------------------------------------------------------
(* TaskStorage: the three backends behind load_tasks and save_tasks *)

MaxStoreOps == 2

\* the threads calling into the store, one call each
Threads == 1..MaxStoreOps

StoreIds == 1..2

\* an inode for the tasks file, one for the temporary file, and one for every
\* open file that was renamed over or unlinked meanwhile
InodeIds == 1..(MaxStoreOps + 2)

StorageTypes == {"file", "redis", "memory"}

\* the redis service: reachable, not answering the ping, or no client at all
\* (import redis or redis.from_url raises)
RedisStates == {"up", "unreachable", "unavailable"}

\* mutant of TaskStorageInit: the failure of redis is swallowed with no fallback
TaskStorageInit_NoFallback(st, rs) ==
    [storage_type |-> st,
     redis_client |-> IF st = "redis" /\ rs # "unavailable" THEN "client" ELSE None]

\* TaskStorage.__init__
TaskStorageInit(st, rs) ==
    IF st = "redis"
    THEN CASE rs = "up"          -> [storage_type |-> "redis", redis_client |-> "client"]
           [] rs = "unreachable" -> [storage_type |-> "file", redis_client |-> "client"]
           [] rs = "unavailable" -> [storage_type |-> "file", redis_client |-> None]
    ELSE [storage_type |-> st, redis_client |-> None]

\* the branch load_tasks and save_tasks take:
\* if self.storage_type == "redis" and self.redis_client / elif "file" / else
Branch(st, client) ==
    IF st = "redis" /\ Truthy(client) THEN "redis"
    ELSE IF st = "file" THEN "file"
    ELSE "memory"

Backend == Branch(storage_type, redis_client)

\* json: a text is a sequence of tokens, the braces of the mapping and one
\* token per entry
Quote(s) == "\"" \o s \o "\""

\* mutant of JsonValue: a string is written as it is, with no quotes
JsonValue_Unquoted(v) == IF v = None THEN "null" ELSE v

\* the encoding of None and of a string
JsonValue(v) == IF v = None THEN "null" ELSE Quote(v)

EntryText(id, rec) ==
    Quote(ToString(id)) \o ": {\"status\": " \o JsonValue(rec.status)
        \o ", \"result\": " \o JsonValue(rec.result) \o "}"

RECURSIVE DumpEntries(_, _)
DumpEntries(m, ids) ==
    IF ids = {}
    THEN <<>>
    ELSE LET k == CHOOSE x \in ids : \A y \in ids : x <= y
         IN  <<EntryText(k, m[k])>> \o DumpEntries(m, ids \ {k})

\* json.dumps(tasks) / json.dump(tasks, f, indent=2)
json_dumps(m) == <<"{">> \o DumpEntries(m, DOMAIN m) \o <<"}">>

\* the records a text can decode to
StoredResults == {None, "null", Completed(1).result}

StoredRecords == [status : {"running", "completed", "failed"}, result : StoredResults]

EntryTexts == {EntryText(id, rec) : id \in StoreIds, rec \in StoredRecords}

ParseEntry(tok) ==
    CHOOSE p \in StoreIds \X StoredRecords : EntryText(p[1], p[2]) = tok

\* a repeated key keeps its last value
RECURSIVE LoadEntries(_, _)
LoadEntries(toks, m) ==
    IF toks = <<>>
    THEN m
    ELSE LET p == ParseEntry(Head(toks))
         IN  LoadEntries(Tail(toks), Put(m, p[1], p[2]))

\* json.loads(data) / json.load(f): ok is FALSE where it raises
json_loads(text) ==
    IF /\ Len(text) >= 2
       /\ text[1] = "{"
       /\ text[Len(text)] = "}"
       /\ \A i \in 2..(Len(text) - 1) : text[i] \in EntryTexts
    THEN [ok |-> TRUE, value |-> LoadEntries(SubSeq(text, 2, Len(text) - 1), EmptyMap)]
    ELSE [ok |-> FALSE, value |-> EmptyMap]

\* the mappings passed to save_tasks
SaveArgs ==
    {EmptyMap,
     1 :> Running,
     (1 :> Completed(1)) @@ (2 :> Running),
     (1 :> [status |-> "failed", result |-> "null"])
         @@ (2 :> [status |-> "failed", result |-> None])}

\* the file system: an inode is free when no name and no open file refers to it
Referenced(dir, fds) == {dir.tasks, dir.tmp} \cup {fds[t] : t \in Threads}

Collect(dir, data, fds) ==
    [i \in InodeIds |-> IF i \in Referenced(dir, fds) THEN data[i] ELSE <<>>]

FreeInode == CHOOSE i \in InodeIds \ Referenced(fs_dir, fd) :
                 \A k \in InodeIds \ Referenced(fs_dir, fd) : i <= k

\* a write at offset 0 of a file that is not truncated at that moment
Overwrite(old, new) == new \o SubSeq(old, Len(new) + 1, Len(old))

\* the text of TASKS_FILE, <<None>> if os.path.exists(TASKS_FILE) is false
TasksFileText == IF fs_dir.tasks = 0 THEN <<None>> ELSE fs_data[fs_dir.tasks]

\* load_tasks of the file backend, with no failure of the read
FileLoadResult ==
    IF fs_dir.tasks = 0
    THEN EmptyMap
    ELSE LET r == json_loads(fs_data[fs_dir.tasks])
         IN  IF r.ok THEN r.value ELSE EmptyMap

\* load_tasks of the redis backend: json.loads(data) if data else {}
RedisLoadResult ==
    IF redis_db = <<>>
    THEN EmptyMap
    ELSE LET r == json_loads(redis_db)
         IN  IF r.ok THEN r.value ELSE EmptyMap

\* what is persisted, in each backend
Persisted == <<TasksFileText, redis_db, memory_tasks>>

Saving(t) == spc[t] \in {"opened", "written", "cleared"}

NotSettled == [valid |-> FALSE, m |-> EmptyMap]

\* a thread calls into the store once, the threads in order
MayCall(t) == spc[t] = "idle" /\ (IF t = 1 THEN TRUE ELSE spc[t - 1] # "idle")

\* a read or a write fails, within the budget of failures
Fails(fail) ==
    /\ fail => nfaults < MaxFaults
    /\ nfaults' = IF fail THEN nfaults + 1 ELSE nfaults

\* bookkeeping of a save_tasks(m) call that takes its first step
BeginSave(t, m) ==
    /\ arg' = [arg EXCEPT ![t] = m]
    /\ passed' = passed \cup {m}
    /\ solo' = IF \E u \in Threads : Saving(u) THEN 0 ELSE t
    /\ settled' = NotSettled

\* bookkeeping of a save_tasks call that returns
EndSave(t, ok) ==
    /\ solo' = IF solo = t THEN 0 ELSE solo
    /\ settled' = IF ok /\ solo = t THEN [valid |-> TRUE, m |-> arg[t]] ELSE settled
    /\ UNCHANGED <<arg, passed>>

\* bookkeeping of a save_tasks(m) call that is one step
WholeSave(t, m, ok) ==
    /\ arg' = [arg EXCEPT ![t] = m]
    /\ passed' = passed \cup {m}
    /\ solo' = 0
    /\ settled' = IF ok /\ ~(\E u \in Threads : Saving(u))
                  THEN [valid |-> TRUE, m |-> m]
                  ELSE NotSettled

\* a step of the call of t changed what is persisted
Touch(t) == touched' = [touched EXCEPT ![t] = @ \/ Persisted' # Persisted]

config == <<STORAGE_TYPE, redis_state, storage_type, redis_client>>

------------------------------------------------------------------------------
(* save_tasks and load_tasks, file backend *)

\* temp_file = f"{TASKS_FILE}.tmp"; open(temp_file, "w"): the one temporary
\* path is created, or truncated where it exists
FileSaveOpen(t) ==
    /\ MayCall(t)
    /\ Backend = "file"
    /\ \E m \in SaveArgs, fail \in BOOLEAN :
          /\ Fails(fail)
          /\ IF fail
             THEN /\ spc' = [spc EXCEPT ![t] = "failed"]
                  /\ WholeSave(t, m, FALSE)
                  /\ UNCHANGED <<fs_dir, fs_data, fd>>
             ELSE LET i == IF fs_dir.tmp = 0 THEN FreeInode ELSE fs_dir.tmp
                  IN  /\ fs_dir' = [fs_dir EXCEPT !.tmp = i]
                      /\ fs_data' = [fs_data EXCEPT ![i] = <<>>]
                      /\ fd' = [fd EXCEPT ![t] = i]
                      /\ spc' = [spc EXCEPT ![t] = "opened"]
                      /\ BeginSave(t, m)
    /\ UNCHANGED <<redis_db, memory_tasks, got, config, jvars, qvars>>
    /\ Touch(t)

\* json.dump(tasks, f, indent=2) and the end of the with block: the text is
\* written from the start of the open file, a part of it where the write fails
FileSaveWrite(t) ==
    /\ spc[t] = "opened"
    /\ \E fail \in BOOLEAN :
          /\ Fails(fail)
          /\ LET text == json_dumps(arg[t])
                 closed == [fd EXCEPT ![t] = 0]
             IN  \E n \in IF fail THEN 0..(Len(text) - 1) ELSE {Len(text)} :
                    /\ fs_data' = Collect(fs_dir,
                                      [fs_data EXCEPT ![fd[t]] =
                                          Overwrite(@, SubSeq(text, 1, n))],
                                      closed)
                    /\ fd' = closed
          /\ IF fail
             THEN /\ spc' = [spc EXCEPT ![t] = "failed"]
                  /\ EndSave(t, FALSE)
             ELSE /\ spc' = [spc EXCEPT ![t] = "written"]
                  /\ UNCHANGED <<arg, passed, solo, settled>>
    /\ UNCHANGED <<fs_dir, redis_db, memory_tasks, got, config, jvars, qvars>>
    /\ Touch(t)

\* os.replace(temp_file, TASKS_FILE): FileNotFoundError where another save has
\* renamed the temporary file meanwhile; except Exception swallows it
FileSaveReplace(t) ==
    /\ spc[t] = "written"
    /\ \E fail \in BOOLEAN :
          /\ Fails(fail)
          /\ IF fail \/ fs_dir.tmp = 0
             THEN /\ spc' = [spc EXCEPT ![t] = "failed"]
                  /\ EndSave(t, FALSE)
                  /\ UNCHANGED <<fs_dir, fs_data>>
             ELSE LET dir == [tasks |-> fs_dir.tmp, tmp |-> 0]
                  IN  /\ fs_dir' = dir
                      /\ fs_data' = Collect(dir, fs_data, fd)
                      /\ spc' = [spc EXCEPT ![t] = "saved"]
                      /\ EndSave(t, TRUE)
    /\ UNCHANGED <<fd, redis_db, memory_tasks, got, config, jvars, qvars>>
    /\ Touch(t)

\* if os.path.exists(TASKS_FILE): json.load(f), else {}; except Exception: {}
FileLoad(t) ==
    /\ MayCall(t)
    /\ Backend = "file"
    /\ \E fail \in BOOLEAN :
          /\ Fails(fail)
          /\ got' = [got EXCEPT ![t] = IF fail THEN EmptyMap ELSE FileLoadResult]
    /\ spc' = [spc EXCEPT ![t] = "loaded"]
    /\ UNCHANGED <<fs_dir, fs_data, fd, redis_db, memory_tasks, arg, touched,
                   passed, solo, settled, config, jvars, qvars>>

------------------------------------------------------------------------------
(* save_tasks and load_tasks, redis backend *)

\* self.redis_client.set("jules_tasks", json.dumps(tasks))
RedisSave(t) ==
    /\ MayCall(t)
    /\ Backend = "redis"
    /\ \E m \in SaveArgs, fail \in BOOLEAN :
          /\ Fails(fail)
          /\ redis_db' = IF fail THEN redis_db ELSE json_dumps(m)
          /\ spc' = [spc EXCEPT ![t] = IF fail THEN "failed" ELSE "saved"]
          /\ WholeSave(t, m, ~fail)
    /\ UNCHANGED <<fs_dir, fs_data, fd, memory_tasks, got, config, jvars, qvars>>
    /\ Touch(t)

\* data = self.redis_client.get("jules_tasks")
RedisLoad(t) ==
    /\ MayCall(t)
    /\ Backend = "redis"
    /\ \E fail \in BOOLEAN :
          /\ Fails(fail)
          /\ got' = [got EXCEPT ![t] = IF fail THEN EmptyMap ELSE RedisLoadResult]
    /\ spc' = [spc EXCEPT ![t] = "loaded"]
    /\ UNCHANGED <<fs_dir, fs_data, fd, redis_db, memory_tasks, arg, touched,
                   passed, solo, settled, config, jvars, qvars>>

------------------------------------------------------------------------------
(* save_tasks and load_tasks, memory backend *)

\* _memory_tasks.clear()
MemorySaveClear(t) ==
    /\ MayCall(t)
    /\ Backend = "memory"
    /\ \E m \in SaveArgs : BeginSave(t, m)
    /\ memory_tasks' = EmptyMap
    /\ spc' = [spc EXCEPT ![t] = "cleared"]
    /\ UNCHANGED <<fs_dir, fs_data, fd, redis_db, got, nfaults, config, jvars, qvars>>
    /\ Touch(t)

\* _memory_tasks.update(tasks)
MemorySaveUpdate(t) ==
    /\ spc[t] = "cleared"
    /\ memory_tasks' = [id \in DOMAIN memory_tasks \cup DOMAIN arg[t] |->
                           IF id \in DOMAIN arg[t] THEN arg[t][id]
                           ELSE memory_tasks[id]]
    /\ spc' = [spc EXCEPT ![t] = "saved"]
    /\ EndSave(t, TRUE)
    /\ UNCHANGED <<fs_dir, fs_data, fd, redis_db, got, nfaults, config, jvars, qvars>>
    /\ Touch(t)

\* return _memory_tasks.copy()
MemoryLoad(t) ==
    /\ MayCall(t)
    /\ Backend = "memory"
    /\ got' = [got EXCEPT ![t] = memory_tasks]
    /\ spc' = [spc EXCEPT ![t] = "loaded"]
    /\ UNCHANGED <<fs_dir, fs_data, fd, redis_db, memory_tasks, arg, touched,
                   passed, solo, settled, nfaults, config, jvars, qvars>>

------------------------------------------------------------------------------
(* Initial state *)

\* the jobs of a fresh deployment
JobsStart(tokens) ==
    /\ store = EmptyMap
    /\ nextId = 1
    /\ pc = [j \in Jobs |-> "idle"]
    /\ tasks = [j \in Jobs |-> EmptyMap]
    /\ req = [j \in Jobs |-> NoRequest]
    /\ submitted = [j \in Jobs |-> NoRequest]
    /\ calls = [j \in Jobs |-> <<>>]
    /\ faults = [j \in Jobs |-> {}]
    /\ nfaults = 0
    /\ github_token \in tokens
    /\ overlapped = {}
    /\ wrote = [j \in Jobs |-> None]

\* task_storage = TaskStorage() at import, nothing persisted yet
StorageStart(types, states) ==
    /\ STORAGE_TYPE \in types
    /\ redis_state \in IF STORAGE_TYPE = "redis" THEN states ELSE {"up"}
    /\ storage_type = TaskStorageInit(STORAGE_TYPE, redis_state).storage_type
    /\ redis_client = TaskStorageInit(STORAGE_TYPE, redis_state).redis_client
    /\ fs_dir = [tasks |-> 0, tmp |-> 0]
    /\ fs_data = [i \in InodeIds |-> <<>>]
    /\ redis_db = <<>>
    /\ memory_tasks = EmptyMap
    /\ spc = [t \in Threads |-> "idle"]
    /\ arg = [t \in Threads |-> EmptyMap]
    /\ fd = [t \in Threads |-> 0]
    /\ got = [t \in Threads |-> EmptyMap]
    /\ touched = [t \in Threads |-> FALSE]
    /\ passed = {}
    /\ solo = 0
    /\ settled = NotSettled

Init == JobsStart(Tokens) /\ StorageStart({"file"}, {"up"}) /\ QueriesStart

------------------------------------------------------------------------------
(* start_task *)

\* task_id = str(uuid.uuid4()); tasks = load_tasks()
StartLoad(j, requests) ==
    /\ pc[j] = "idle"
    /\ j = nextId
    /\ \E r \in requests :
          /\ req' = [req EXCEPT ![j] = r]
          /\ submitted' = [submitted EXCEPT ![j] = r]
    /\ nextId' = nextId + 1
    /\ tasks' = [tasks EXCEPT ![j] = load_tasks(store)]
    /\ pc' = [pc EXCEPT ![j] = "st_loaded"]
    /\ UNCHANGED <<store, calls, faults, nfaults, github_token, overlapped, wrote>>
    /\ UNCHANGED <<svars, qvars>>

\* mutant of NewTask: the record is filed under another key
NewTask_WrongKey(t, task_id) == Put(t, task_id + 1, [status |-> "running", result |-> None])

\* mutant of NewTask: the record starts as "pending"
NewTask_Pending(t, task_id) == Put(t, task_id, [status |-> "pending", result |-> None])

\* tasks[task_id] = {"status": "running", "result": None}
NewTask(t, task_id) == Put(t, task_id, Running)

\* mutant of StartSave: the run is handed to the scheduler without the save
StartSave_Skipped(j) ==
    /\ pc[j] = "st_loaded"
    /\ pc' = [pc EXCEPT ![j] = "st_saved"]
    /\ UNCHANGED <<store, tasks, nextId, req, submitted, calls, faults, nfaults,
                   github_token, overlapped, wrote>>
    /\ UNCHANGED <<svars, qvars>>

\* tasks[task_id] = {...}; save_tasks(tasks)
StartSave(j) ==
    /\ pc[j] = "st_loaded"
    /\ tasks' = [tasks EXCEPT ![j] = NewTask(tasks[j], j)]
    /\ store' = save_tasks(NewTask(tasks[j], j))
    /\ pc' = [pc EXCEPT ![j] = "st_saved"]
    /\ UNCHANGED <<nextId, req, submitted, calls, faults, nfaults, github_token,
                   overlapped, wrote>>
    /\ UNCHANGED <<svars, qvars>>

\* background_tasks.add_task(run_agent, task_id, req); return {"task_id": task_id}
StartReturn(j) ==
    /\ pc[j] = "st_saved"
    /\ pc' = [pc EXCEPT ![j] = "scheduled"]
    /\ tasks' = [tasks EXCEPT ![j] = EmptyMap]
    /\ overlapped' = overlapped \cup {<<a, j>> : a \in {x \in Jobs : Executing(x)}}
    /\ UNCHANGED <<store, nextId, req, submitted, calls, faults, nfaults,
                   github_token, wrote>>
    /\ UNCHANGED <<svars, qvars>>

------------------------------------------------------------------------------
(* run_agent *)

\* mutant of RunLoad: the run marks its record "running" in the store when it starts
RunLoad_MarksRunning(j) ==
    /\ pc[j] = "scheduled"
    /\ store' = save_tasks(Put(load_tasks(store), j, [status |-> "running", result |-> None]))
    /\ tasks' = [tasks EXCEPT ![j] = store']
    /\ pc' = [pc EXCEPT ![j] = "ra_loaded"]
    /\ UNCHANGED <<nextId, req, submitted, calls, faults, nfaults,
                   github_token, overlapped, wrote>>
    /\ UNCHANGED <<svars, qvars>>

\* tasks = load_tasks()
RunLoad(j) ==
    /\ pc[j] = "scheduled"
    /\ tasks' = [tasks EXCEPT ![j] = load_tasks(store)]
    /\ pc' = [pc EXCEPT ![j] = "ra_loaded"]
    /\ UNCHANGED <<store, nextId, req, submitted, calls, faults, nfaults,
                   github_token, overlapped, wrote>>
    /\ UNCHANGED <<svars, qvars>>

\* the terminal record the handler puts into its snapshot, None if the
\* exception is not caught
TerminalRecord(task_id, exc) ==
    IF exc = NoExc THEN Completed(task_id)
    ELSE IF IsException(exc.cls) THEN Failed(exc)
    ELSE [status |-> None, result |-> None]

\* try: ... except Exception as e: ...
RunTry(j, faultSets) ==
    /\ pc[j] = "ra_loaded"
    /\ \E f \in faultSets :
          /\ nfaults + Cardinality(f) <= MaxFaults
          /\ nfaults' = nfaults + Cardinality(f)
          /\ faults' = [faults EXCEPT ![j] = f]
          /\ LET o == TryBlock(j, req[j], github_token, f)
                 rec == TerminalRecord(j, o.exc)
             IN  /\ req' = [req EXCEPT ![j] = o.req]
                 /\ calls' = [calls EXCEPT ![j] = o.calls]
                 /\ IF rec.status = None
                    THEN /\ pc' = [pc EXCEPT ![j] = "raised"]
                         /\ tasks' = [tasks EXCEPT ![j] = EmptyMap]
                    ELSE /\ pc' = [pc EXCEPT ![j] = "ra_final"]
                         /\ tasks' = [tasks EXCEPT ![j] = Put(tasks[j], j, rec)]
    /\ UNCHANGED <<store, nextId, submitted, github_token, overlapped, wrote>>
    /\ UNCHANGED <<svars, qvars>>

\* save_tasks(tasks); the handler returns and its locals and arguments are gone
RunSave(j) ==
    /\ pc[j] = "ra_final"
    /\ store' = save_tasks(tasks[j])
    /\ wrote' = [wrote EXCEPT ![j] = tasks[j][j].status]
    /\ pc' = [pc EXCEPT ![j] = "done"]
    /\ tasks' = [tasks EXCEPT ![j] = EmptyMap]
    /\ req' = [req EXCEPT ![j] = NoRequest]
    /\ submitted' = [submitted EXCEPT ![j] = NoRequest]
    /\ calls' = [calls EXCEPT ![j] = <<>>]
    /\ faults' = [faults EXCEPT ![j] = {}]
    /\ UNCHANGED <<nextId, nfaults, github_token, overlapped>>
    /\ UNCHANGED <<svars, qvars>>

------------------------------------------------------------------------------

\* the handlers of the jobs J, their requests drawn from `requests` and the
\* failures of their runs from `faultSets`
Handlers(J, requests, faultSets) ==
    \E j \in J :
        \/ StartLoad(j, requests)
        \/ StartSave(j)
        \/ StartReturn(j)
        \/ RunLoad(j)
        \/ RunTry(j, faultSets)
        \/ RunSave(j)

\* concurrent jobs
Next == Handlers(Jobs, ConcurrentRequests, ConcurrentFaultSets)

Spec == Init /\ [][Next]_vars

\* every request and every failure of the pipeline
PipelineNext == Handlers(PipelineJobs, Requests, FaultSets)

PipelineSpec == Init /\ [][PipelineNext]_vars

\* the calls into the store, over every configuration of the backend
StoreInit ==
    /\ JobsStart({"ghp_token"})
    /\ StorageStart(StorageTypes, RedisStates)
    /\ QueriesStart

StoreNext ==
    \E t \in Threads :
        \/ FileSaveOpen(t)
        \/ FileSaveWrite(t)
        \/ FileSaveReplace(t)
        \/ FileLoad(t)
        \/ RedisSave(t)
        \/ RedisLoad(t)
        \/ MemorySaveClear(t)
        \/ MemorySaveUpdate(t)
        \/ MemoryLoad(t)

StoreSpec == StoreInit /\ [][StoreNext]_vars

\* the queries beside the handlers of the jobs
QueryNext ==
    \/ Handlers(PipelineJobs, ConcurrentRequests, ConcurrentFaultSets)
    \/ \E id \in AllIds :
          \/ GetStatus(id)
          \/ GetResult(id)

QuerySpec == Init /\ [][QueryNext]_vars

------------------------------------------------------------------------------
(* Properties of the job lifecycle under concurrent jobs (Spec) *)

Returned(j) == pc[j] \in {"scheduled", "ra_loaded", "ra_final", "raised", "done"}

\* C1: once get_result(id) shows "completed" or "failed", every later poll of
\* id returns the identical status and result: no step changes the answer of
\* get_result for an id whose record is terminal.
C1_TerminalStable ==
    [][\A id \in AllIds :
          get_result(store, id).status \in TerminalStatus
              => get_result(store', id) = get_result(store, id)]_vars

\* C2: for jobs A and B, B's start_task having returned while A's run was
\* executing, both runs successful and both returned (saves are single steps, so
\* they never overlap): get_result(A) and get_result(B) both report
\* "completed", with distinct results, and neither record is missing.
C2_BackToBackBothCompleted ==
    \A a, b \in Jobs :
        ( /\ <<a, b>> \in overlapped
          /\ pc[a] = "done" /\ pc[b] = "done"
          /\ wrote[a] = "completed" /\ wrote[b] = "completed" )
        => /\ a \in DOMAIN store /\ b \in DOMAIN store
           /\ get_result(store, a).status = "completed"
           /\ get_result(store, b).status = "completed"
           /\ get_result(store, a).result # get_result(store, b).result

\* C3: every identifier that start_task has returned has a record in the
\* mapping load_tasks returns, in every reachable state.
C3_IssuedIdHasRecord ==
    \A j \in Jobs : Returned(j) => j \in DOMAIN load_tasks(store)

\* C4: a job whose run_agent has run to its end is recorded in the store with
\* status "completed" or "failed", and stays so: whenever the run of j has
\* returned, the store shows j terminal.
C4_FinishedRunStaysTerminal ==
    \A j \in Jobs : pc[j] = "done" => get_result(store, j).status \in TerminalStatus

\* C5: after start_task has returned id and before the run of id has taken a
\* step, get_status(id) reports "pending" or "running".
C5_FreshJobPendingOrRunning ==
    \A j \in Jobs :
        pc[j] = "scheduled" => get_status(store, j).status \in {"pending", "running"}

\* C6: an id that start_task has never generated is in no mapping (the store,
\* or a handler's snapshot), get_status reports "unknown" for it and get_result
\* returns {status: "unknown", result: None}.
C6_NeverIssuedUnknown ==
    \A id \in AllIds :
        id >= nextId
        => /\ id \notin DOMAIN store
           /\ \A j \in Jobs : id \notin DOMAIN tasks[j]
           /\ get_status(store, id) = [status |-> "unknown"]
           /\ get_result(store, id) = [status |-> "unknown", result |-> None]

\* C6 witness: all jobs were submitted, some run has saved its record, and the
\* one id never issued is polled as unknown.
C6_Witness ==
    /\ nextId = MaxJobs + 1
    /\ \E j \in Jobs : pc[j] = "done" /\ j \in DOMAIN store
    /\ get_status(store, MaxJobs + 1).status = "unknown"

------------------------------------------------------------------------------
(* Properties of one pipeline run (PipelineSpec) *)

\* the try block of j has ended and its terminal record is in the snapshot
\* that run_agent saves next
Ended(j) == pc[j] = "ra_final"

\* the record run_agent(j) is about to save for its own id
Terminal(j) == tasks[j][j]

Blank(cmd) == Truthy(cmd) /\ Split(cmd) = <<>>

Unresolvable(cmd) == Truthy(cmd) /\ ~Blank(cmd) /\ ~Which(Split(cmd)[1])

\* the gate command of j was executed and exited non-zero
GateExitedNonZero(j) ==
    /\ "gate" \in Range(calls[j])
    /\ Which(Split(req[j].test_command)[1])
    /\ ReturnCode(Split(req[j].test_command), faults[j]) # 0

\* C7: if a gate command is supplied and its execution exits non-zero, the run
\* records status "failed" with result exactly "Tests failed. Aborting push.",
\* and makes no add, commit, push or host API call.
C7_GateFailureAborts ==
    \A j \in Jobs :
        (Ended(j) /\ GateExitedNonZero(j))
        => /\ Terminal(j) = [status |-> "failed", result |-> "Tests failed. Aborting push."]
           /\ Range(calls[j]) \cap Range(PostGate) = {}

\* C7 witness: a run whose gate command ran and exited non-zero.
C7_Witness ==
    \E j \in Jobs :
        /\ Ended(j) /\ GateExitedNonZero(j)
        /\ submitted[j].test_command = "pytest -q"
        /\ Terminal(j).status = "failed"

\* C8: if the executable of the supplied gate command cannot be resolved (and
\* the token is set, so the run gets that far), the command is replaced by the
\* echo no-op, the gate does not fail the run whatever the original command
\* would have done, and when every other call succeeds the run makes the gate,
\* commit, push and host API calls and records "completed".
C8_MissingGateSkipped ==
    \A j \in Jobs :
        (Ended(j) /\ Truthy(github_token) /\ Unresolvable(submitted[j].test_command))
        => /\ req[j].test_command = ECHO
           /\ Terminal(j).result # "Tests failed. Aborting push."
           /\ ~GateExitedNonZero(j)
           /\ faults[j] \subseteq {"gate"}
                => /\ Terminal(j).status = "completed"
                   /\ {"gate", "git_commit", "git_push", "requests_post"}
                          \subseteq Range(calls[j])

\* C8 witness: a run with an unresolvable gate command in an environment where
\* test commands exit non-zero, ended as completed.
C8_Witness ==
    \E j \in Jobs :
        /\ Ended(j) /\ Truthy(github_token)
        /\ Unresolvable(submitted[j].test_command)
        /\ faults[j] = {"gate"}
        /\ Terminal(j).status = "completed"

\* positions in calls[j] of the calls that failed in the environment of the run
FailedAt(j) ==
    {i \in DOMAIN calls[j] :
        IF calls[j][i] = "gate"
        THEN \/ ~Which(Split(req[j].test_command)[1])
             \/ ReturnCode(Split(req[j].test_command), faults[j]) # 0
        ELSE calls[j][i] \in faults[j]}

Min(S) == CHOOSE x \in S : \A y \in S : x <= y

\* every step of the run of j up to and including the creation of the change
\* request succeeded
AllSucceeded(j) ==
    /\ Truthy(github_token)
    /\ ~Blank(submitted[j].test_command)
    /\ FailedAt(j) = {}
    /\ Range(PreGate) \cup Range(PostGate) \subseteq Range(calls[j])
    /\ Truthy(submitted[j].test_command) => "gate" \in Range(calls[j])

\* str(e) of the first failure of the run of j
FirstFailure(j) ==
    IF ~Truthy(github_token) THEN "GITHUB_TOKEN is not set"
    ELSE IF Blank(submitted[j].test_command) THEN "list index out of range"
    ELSE LET c == calls[j][Min(FailedAt(j))]
         IN  IF c # "gate" THEN Raises(c).msg
             ELSE IF Which(Split(req[j].test_command)[1])
                  THEN "Tests failed. Aborting push."
                  ELSE "[Errno 2] No such file or directory: "
                           \o Split(req[j].test_command)[1]

\* C10: the terminal record of a run matches what happened: "completed", with
\* the pull request link in the result, if and only if every step up to and
\* including the creation of the change request succeeded; otherwise "failed"
\* with the description of the first failure; and no run raises to its caller.
C10_OutcomeMatchesRun ==
    \A j \in Jobs :
        /\ pc[j] # "raised"
        /\ Ended(j)
            => /\ Terminal(j).status = "completed" <=> AllSucceeded(j)
               /\ AllSucceeded(j)
                    => Terminal(j).result = "Pull request created: " \o HtmlUrl(j)
               /\ ~AllSucceeded(j)
                    => Terminal(j) = [status |-> "failed", result |-> FirstFailure(j)]

\* C10 witness: a run that got as far as the push, which failed.
C10_Witness ==
    \E j \in Jobs :
        /\ Ended(j)
        /\ faults[j] = {"git_push"}
        /\ calls[j] # <<>>
        /\ calls[j][Len(calls[j])] = "git_push"
        /\ Terminal(j).status = "failed"

------------------------------------------------------------------------------
(* The first status of a job (Spec) *)

\* C9 as stated: start_task saves the record of the fresh id with status
\* "pending" and result None, and the record is moved to "running" when its
\* run begins.
C9_StartsPending ==
    [][\A j \in Jobs :
          /\ (pc[j] = "st_loaded" /\ pc'[j] = "st_saved")
                => get_result(store', j) = [status |-> "pending", result |-> None]
          /\ (pc[j] = "scheduled" /\ pc'[j] = "ra_loaded")
                => get_result(store', j).status = "running"]_vars

\* every status that occurs in the store or in a handler's snapshot
Statuses ==
    {store[id].status : id \in DOMAIN store}
        \cup UNION {{tasks[j][id].status : id \in DOMAIN tasks[j]} : j \in Jobs}

\* C9, amended: a job's lifecycle starts at "running": start_task saves the
\* record of the fresh id with status "running" and result None, no record ever
\* has status "pending", the start of the run changes no record, and the run
\* saves one terminal record ("completed" or "failed") for its id, once.
C9_StartsRunning ==
    /\ [](Statuses \subseteq {"running", "completed", "failed"})
    /\ [][\A j \in Jobs :
            /\ (pc[j] = "st_loaded" /\ pc'[j] = "st_saved")
                  => get_result(store', j) = [status |-> "running", result |-> None]
            /\ (pc[j] = "scheduled" /\ pc'[j] = "ra_loaded") => store' = store
            /\ (pc[j] = "ra_final" /\ pc'[j] = "done")
                  => /\ wrote[j] = None
                     /\ get_result(store', j).status \in TerminalStatus
                     /\ wrote'[j] = get_result(store', j).status
            /\ wrote[j] # None => wrote'[j] = wrote[j]]_vars

\* C9 witness: one job has just been given its first record while the run of
\* another has saved its terminal record.
C9_Witness ==
    \E j, k \in Jobs :
        /\ pc[j] = "st_saved" /\ get_result(store, j) = [status |-> "running", result |-> None]
        /\ pc[k] = "done" /\ get_result(store, k).status \in TerminalStatus

------------------------------------------------------------------------------
(* Further properties of one pipeline run (PipelineSpec) *)

\* C14: if the access token is missing when a run starts, the run fails at
\* once with status "failed": it makes no external call at all (no workspace
\* directory, clone, gate, commit, push or host API call).
C14_MissingTokenFailsFirst ==
    \A j \in Jobs :
        (Ended(j) /\ ~Truthy(github_token))
        => /\ calls[j] = <<>>
           /\ Terminal(j) = [status |-> "failed", result |-> "GITHUB_TOKEN is not set"]

\* C14 witness: a run that ended with the token missing.
C14_Witness ==
    \E j \in Jobs : Ended(j) /\ github_token = None /\ Terminal(j).status = "failed"

\* the calls of a run with request r whose every call succeeds, in code order
Script(r) ==
    PreGate \o (IF Truthy(r.test_command) THEN <<"gate">> ELSE <<>>) \o PostGate

\* s is an initial part of t
IsPrefix(s, t) == Len(s) <= Len(t) /\ s = SubSeq(t, 1, Len(s))

\* C15: the calls of a run are an initial part of the fixed order (workspace,
\* clone, checkout, identity, branch, change, optional gate, add, commit, push,
\* host API), and a call is made only if every earlier call of the run
\* succeeded: only the last call made can have failed. So a push follows a
\* successful commit, the host API call a successful push, and a failed clone
\* ends the run as "failed" with no later call.
C15_StepsAreHardGates ==
    \A j \in Jobs :
        Ended(j)
        => /\ IsPrefix(calls[j], Script(req[j]))
           /\ FailedAt(j) \subseteq {Len(calls[j])}
           /\ "git_clone" \in faults[j] /\ "git_clone" \in Range(calls[j])
                => /\ calls[j] = <<"makedirs", "git_clone">>
                   /\ Terminal(j) = Failed(Raises("git_clone"))

\* C15 witness: a run whose clone failed.
C15_Witness ==
    \E j \in Jobs :
        /\ Ended(j)
        /\ faults[j] = {"git_clone"}
        /\ calls[j] = <<"makedirs", "git_clone">>
        /\ Terminal(j).status = "failed"

\* every record of the store and of the handlers' snapshots
Records ==
    {store[id] : id \in DOMAIN store}
        \cup UNION {{tasks[j][id] : id \in DOMAIN tasks[j]} : j \in Jobs}

\* C19: every record has one of the job statuses, and its result is None
\* exactly when the status is not terminal: "running" (or "pending") goes with
\* None, "completed" and "failed" with a result that is not None.
C19_ResultIffTerminal ==
    \A r \in Records :
        /\ r.status \in {"pending", "running", "completed", "failed"}
        /\ r.result = None <=> r.status \notin TerminalStatus

\* C19 witness: the store holds the record of a failed run.
C19_Witness ==
    \E id \in DOMAIN store : store[id].status = "failed" /\ store[id].result # None

------------------------------------------------------------------------------
(* Store writes and scheduling under concurrent jobs (Spec) *)

C18_SaveChangesOwnRecordOnly ==
    [][\A j \in Jobs :
          \/ (pc[j] = "st_loaded" /\ pc'[j] = "st_saved")
          \/ (pc[j] = "ra_final" /\ pc'[j] = "done")
          => \A id \in AllIds \ {j} : get_result(store', id) = get_result(store, id)]_vars

\* the stages of a job, in the order the code goes through them
Stage(p) ==
    CASE p = "idle" -> 0
      [] p = "st_loaded" -> 1
      [] p = "st_saved" -> 2
      [] p = "scheduled" -> 3
      [] p = "ra_loaded" -> 4
      [] p \in {"ra_final", "raised"} -> 5
      [] p = "done" -> 6

\* C20: start_task saves the initial record of its id and only then hands the
\* run to the scheduler, and there is at most one run per id: a job goes
\* through its stages one at a time and never back, the step before the
\* scheduling is the save of the record of the id, and a run starts only from
\* the scheduled stage.
C20_SaveThenScheduleOnce ==
    [][\A j \in Jobs :
          /\ Stage(pc'[j]) \in {Stage(pc[j]), Stage(pc[j]) + 1}
          /\ (pc[j] = "st_loaded" /\ pc'[j] = "st_saved")
                => j \in DOMAIN store' /\ store'[j] = [status |-> "running", result |-> None]
          /\ (pc'[j] = "ra_loaded" /\ pc[j] # "ra_loaded") => pc[j] = "scheduled"]_vars

\* C20 witness: a run has started and found the initial record of its id in
\* the store.
C20_Witness ==
    \E j \in Jobs :
        /\ pc[j] = "ra_loaded"
        /\ j \in DOMAIN tasks[j] /\ tasks[j][j].status = "running"

------------------------------------------------------------------------------
(* Properties of the storage backends (StoreSpec) *)

\* C11: round trip of the file-backed store: after save_tasks(m) has run to
\* its end with no failure and with no other save beside or after it, what
\* load_tasks returns, with no failure of the read, is equal to m.
C11_FileRoundTrip ==
    (Backend = "file" /\ settled.valid) => FileLoadResult = settled.m

\* a save of a mapping holding the string "null" and None has returned, and a
\* load after it has returned that mapping
C11_Witness ==
    /\ Backend = "file"
    /\ settled.valid
    /\ \E id \in DOMAIN settled.m : settled.m[id].result = "null"
    /\ \E id \in DOMAIN settled.m : settled.m[id].result = None
    /\ \E t \in Threads : spc[t] = "loaded" /\ got[t] = settled.m

\* redis is selected and TaskStorage.__init__ failed to reach it
Fallback == STORAGE_TYPE = "redis" /\ redis_state # "up"

C13_FailedSaveChangesNothing ==
    \A t \in Threads : spc[t] = "failed" => ~touched[t]

\* C17: the tasks file is absent or holds the whole text of one mapping that
\* was passed to save_tasks.
C17_TasksFileWhole ==
    \/ fs_dir.tasks = 0
    \/ \E m \in passed : fs_data[fs_dir.tasks] = json_dumps(m)

------------------------------------------------------------------------------
(* Properties of the request of a run (PipelineSpec) *)

\* C22: a run leaves the request it was given as it was submitted: after the
\* try block, the prompt, the repository address, the base branch and the test
\* command of the request equal those passed to start_task.
C22_RequestUnchanged ==
    \A j \in Jobs : Ended(j) => req[j] = submitted[j]

------------------------------------------------------------------------------
(* Properties of the queries (QuerySpec) *)

====
